---------------------------- MODULE Spec2Model ----------------------------
(***************************************************************************)
(* swizzle: reorder the address and data bits of a ROM image               *)
(* (src/swizzle.c).                                                        *)
(*                                                                         *)
(* Machine integers are modelled as bit vectors: a value is the set of the *)
(* positions of its 1 bits.  int is 32 bits wide; long and unsigned long   *)
(* are ulongBits wide (32 on ILP32/LLP64 builds, 64 on LP64 builds).  A    *)
(* left shift of an int into its sign bit (1 << 31, byte << 24) is taken   *)
(* as the two's complement wrap that every build produces; its conversion  *)
(* to unsigned long then sign-extends.                                     *)
(*                                                                         *)
(* C arrays are 0-indexed; the sequences modelling them are 1-indexed, so  *)
(* dest[i] of the source is dest[i + 1] here.  A string is a sequence of   *)
(* one-character strings.                                                  *)
(***************************************************************************)
EXTENDS Integers, Sequences, FiniteSets, TLC

VARIABLES
    ulongBits,    \* width of long / unsigned long in this build
    opts,         \* swizzle_t: addrBits, dataBits, bytesPerWord, bigEndian
    inFileSize,   \* size of the file at in_path (what ftell reports)
    inFileData,   \* bytes of the file at in_path (what fread delivers)
    outFile,      \* bytes of the file at out_path
    pc,           \* position in swizzle()
    err,          \* the fatal error the run ended with, "none" otherwise
    warnings,     \* warnings printed to stderr so far
    fileSize,     \* long fileSize
    inSize,       \* long inSize (the working size)
    numAddrBits,  \* const int numAddrBits
    numDataBits,  \* const int numDataBits
    addrBits,     \* int addrBits[32]
    dataBits,     \* int dataBits[32]
    inData,       \* unsigned char *inData
    outData,      \* unsigned char *outData
    pos,          \* loop variable of the transform loop
    assembled,    \* data as assembled from the input bytes (lines 175-181)
    data,         \* unsigned long data at the end of the last loop iteration
    outAddr,      \* long outAddr of the last loop iteration
    written,      \* how many times the loop stored to each byte of outData
    oob,          \* the loop accessed a buffer outside its bounds
    run,          \* which invocation of the tool this is
    firstImage,   \* the input image of the first invocation
    call          \* a single call of parseBits / swizzleWord and its result

vars == <<ulongBits, opts, inFileSize, inFileData, outFile, pc, err, warnings,
          fileSize, inSize, numAddrBits, numDataBits, addrBits, dataBits,
          inData, outData, pos, assembled, data, outAddr, written, oob, run,
          firstImage, call>>

-----------------------------------------------------------------------------
(* Bounds of the model.                                                    *)

MaxFileSize == 8
MaxSpecLen == 5
MaxCount == 2
MaxSizeBit == 34

-----------------------------------------------------------------------------
(* Machine arithmetic on bit vectors.                                      *)

IntBits == 32
ByteBits == 8
TableLen == 32

\* The null pointer of a char *: no string.
NULL == <<"NULL">>

RECURSIVE Pow2(_)
Pow2(k) == IF k = 0 THEN 1 ELSE 2 * Pow2(k - 1)

RECURSIVE BitsFrom(_, _)
BitsFrom(n, i) ==
    IF n = 0 THEN {}
    ELSE (IF n % 2 = 1 THEN {i} ELSE {}) \cup BitsFrom(n \div 2, i + 1)

\* The bit vector of a natural number.
BitsOf(n) == BitsFrom(n, 0)

RECURSIVE ValueOf(_)
\* The number a bit vector within 0..30 stands for.
ValueOf(S) ==
    IF S = {} THEN 0
    ELSE LET b == CHOOSE x \in S : TRUE IN Pow2(b) + ValueOf(S \ {b})

\* An int converted to unsigned long: the sign bit is extended.
SignExtend(S, L) ==
    IF (IntBits - 1) \in S THEN S \cup ((IntBits - 1)..(L - 1)) ELSE S

\* (int) v << k, converted to unsigned long.
IntShl(v, k, L) ==
    SignExtend({b + k : b \in {x \in BitsOf(v) : x + k < IntBits}}, L)

\* 1 << k, converted to unsigned long.
OneShl(k, L) == SignExtend({k} \cap (0..(IntBits - 1)), L)

\* word >> k and word << k on unsigned long.
Shr(S, k) == {b - k : b \in {x \in S : x >= k}}
Shl(S, k, L) == {b + k : b \in {x \in S : x + k < L}}

\* ++ on a long.
Inc(S, L) ==
    LET k == CHOOSE x \in 0..L : x \notin S /\ \A y \in 0..(x - 1) : y \in S
    IN  {b \in S : b > k} \cup ({k} \cap (0..(L - 1)))

RECURSIVE AddSmall(_, _, _)
\* S + n for a small n >= 0.
AddSmall(S, n, L) == IF n = 0 THEN S ELSE AddSmall(Inc(S, L), n - 1, L)

\* Digit k of S to the base 2^16.
Digit(S, k) == ValueOf({b - 16 * k : b \in {x \in S : x \div 16 = k}})

RECURSIVE DivMod(_, _, _, _)
\* Long division of the digits k..0 of S by a small w, from the top digit
\* down: the result is <<quotient, remainder>>, rem the remainder so far.
DivMod(S, w, k, rem) ==
    IF k < 0 THEN <<{}, rem>>
    ELSE LET r == 65536 * rem + Digit(S, k)
             rest == DivMod(S, w, k - 1, r % w)
         IN  <<{b + 16 * k : b \in BitsOf(r \div w)} \cup rest[1], rest[2]>>

\* S / w and S % w on a long, for a small w > 0.
Div(S, w, L) == DivMod(S, w, (L \div 16) - 1, 0)[1]
Mod(S, w, L) == DivMod(S, w, (L \div 16) - 1, 0)[2]

TopBit(S) == CHOOSE b \in S : \A x \in S : x <= b

-----------------------------------------------------------------------------
(* strtok and atoi, as parseBits uses them.                                *)

Digits == <<"0", "1", "2", "3", "4", "5", "6", "7", "8", "9">>
IsDigit(c) == \E i \in 1..10 : Digits[i] = c
DigitVal(c) == (CHOOSE i \in 1..10 : Digits[i] = c) - 1

\* strtok skips the commas from i on: where the next token starts (beyond
\* the end of s when there is none).
TokenStart(s, i) ==
    CHOOSE j \in i..(Len(s) + 1) :
        /\ \A x \in i..(j - 1) : s[x] = ","
        /\ (j = Len(s) + 1 \/ s[j] # ",")

\* strtok scans the token from i to the character before the next comma.
TokenEnd(s, i) ==
    CHOOSE j \in i..Len(s) :
        /\ \A x \in i..j : s[x] # ","
        /\ (j = Len(s) \/ s[j + 1] = ",")

RECURSIVE StrtokFrom(_, _)
\* The tokens successive strtok(.., ",") calls return from character i on.
StrtokFrom(s, i) ==
    LET b == IF i > Len(s) THEN i ELSE TokenStart(s, i)
    IN  IF b > Len(s) THEN <<>>
        ELSE LET e == TokenEnd(s, b)
             IN  <<SubSeq(s, b, e)>> \o StrtokFrom(s, e + 2)

Strtok(s) == StrtokFrom(s, 1)

RECURSIVE AtoiDigits(_, _, _)
AtoiDigits(tok, i, acc) ==
    IF i > Len(tok) \/ ~IsDigit(tok[i]) THEN acc
    ELSE AtoiDigits(tok, i + 1, 10 * acc + DigitVal(tok[i]))

RECURSIVE SkipSpace(_, _)
SkipSpace(tok, i) ==
    IF i <= Len(tok) /\ tok[i] = " " THEN SkipSpace(tok, i + 1) ELSE i

Atoi(tok) ==
    LET s == SkipSpace(tok, 1)
        signed == s <= Len(tok) /\ tok[s] \in {"-", "+"}
        v == AtoiDigits(tok, IF signed THEN s + 1 ELSE s, 0)
    IN  IF signed /\ tok[s] = "-" THEN 0 - v ELSE v

-----------------------------------------------------------------------------
(* parseBits                                                               *)

ZeroTable == [i \in 1..TableLen |-> 0]

\* A range check that lets index = count through.
IndexOutOfRangeLax(index, count) == index < 0 \/ index > count

\* The comparison of an index with the valid range (line 62).
IndexOutOfRange(index, count) == index < 0 \/ index >= count

\* Where the loop stores the token's index (lines 59-60).
StoreIndex(dest, p, index) == IF p > 0 THEN [dest EXCEPT ![p] = index] ELSE dest

\* One iteration of the while loop (lines 58-70) on token tok.
ParseToken(st, tok, count, L) ==
    LET index == Atoi(tok)
        d == StoreIndex(st.dest, st.pos, index)
    IN  IF IndexOutOfRange(index, count)
        THEN [st EXCEPT !.dest = d, !.err = "index", !.info = <<index, count - 1>>]
        ELSE LET m == OneShl(index, L)
             IN  [st EXCEPT !.dest = d,
                            !.warn = IF st.bitsFound \cap m # {}
                                     THEN Append(@, index) ELSE @,
                            !.bitsFound = @ \cup m,
                            !.pos = @ - 1]

RECURSIVE ParseLoop(_, _, _, _, _)
ParseLoop(st, toks, k, count, L) ==
    IF k > Len(toks) \/ st.err # "none" THEN st
    ELSE ParseLoop(ParseToken(st, toks[k], count, L), toks, k + 1, count, L)

\* A final check that notices missing tokens only.
CountCheckTooFew(st, count) ==
    IF st.err = "none" /\ st.pos > 0
    THEN [st EXCEPT !.err = "count", !.info = <<count, count - st.pos>>]
    ELSE st

\* The check after the loop (lines 73-76).
CountCheck(st, count) ==
    IF st.err = "none" /\ st.pos # 0
    THEN [st EXCEPT !.err = "count", !.info = <<count, count - st.pos>>]
    ELSE st

\* parseBits(bits, dest, count, type): the table, the error it exited with
\* and the indexes it warned about.
ParseBits(bits, dest, count, L) ==
    CountCheck(ParseLoop([pos |-> count, bitsFound |-> {}, dest |-> dest,
                          warn |-> <<>>, err |-> "none", info |-> <<>>],
                         Strtok(bits), 1, count, L),
               count)

-----------------------------------------------------------------------------
(* swizzleWord                                                             *)

\* A scatter: bit i of the word is moved to position bits[i].
SwizzleBitScatter(word, bits, i, L) ==
    LET b == bits[i + 1]
        m == word \cap OneShl(i, L)
    IN  IF b >= i THEN Shl(m, b - i, L) ELSE Shr(m, i - b)

\* The contribution of destination bit i (lines 86-89).
SwizzleBit(word, bits, i, L) ==
    LET b == bits[i + 1]
        m == word \cap OneShl(b, L)
    IN  IF b >= i THEN Shr(m, b - i) ELSE Shl(m, i - b, L)

\* swizzleWord(word, bits, count) (lines 80-92).
SwizzleWord(word, bits, count, L) ==
    UNION {SwizzleBit(word, bits, i, L) : i \in 0..(count - 1)}

-----------------------------------------------------------------------------
(* Inputs: bit specs as the command line gives them.                       *)

\* The decimal text of a number below 100.
Decimal(n) == IF n < 10 THEN <<Digits[n + 1]>>
              ELSE <<Digits[(n \div 10) + 1], Digits[(n % 10) + 1]>>

RECURSIVE Join(_, _)
\* The tokens toks[k..] joined by commas.
Join(toks, k) ==
    IF k > Len(toks) THEN <<>>
    ELSE IF k = Len(toks) THEN Decimal(toks[k])
    ELSE Decimal(toks[k]) \o <<",">> \o Join(toks, k + 1)

Format(toks) == Join(toks, 1)

SpecAlphabet == {"0", "1", "2", ",", "-"}

RECURSIVE Strings(_)
\* Every string of at most n characters of SpecAlphabet.
Strings(n) ==
    IF n = 0 THEN {<<>>}
    ELSE LET shorter == Strings(n - 1)
         IN  shorter \cup {Append(s, c) : s \in shorter, c \in SpecAlphabet}

\* Token lists of length n, most significant first: the identity order, the
\* reversal, the rotations, and lists that repeat an index.
Identity(n) == [k \in 1..n |-> n - k]
Reversal(n) == [k \in 1..n |-> k - 1]
Rotation(n, r) == [k \in 1..n |-> (n - k + r) % n]
Constant(n, c) == [k \in 1..n |-> c]
Doubled(n) == [k \in 1..n |-> IF k = 1 THEN 0 ELSE n - k]

TokenLists(n) ==
    {Identity(n), Reversal(n), Doubled(n), Constant(n, 0), Constant(n, n - 1)}
        \cup {Rotation(n, r) : r \in 1..(n - 1)}

\* Bit specs beyond the enumerated strings: 8- and 32-bit specs, a 9-token
\* spec that starts with an out-of-range index, one that does not, one with
\* an unparsable token and an empty one, one that repeats index 31.
SpecExamples ==
    {<<Format(<<8, 0, 1, 2, 3, 4, 5, 6, 7>>), 8>>,
     <<Format(<<0, 1, 2, 3, 4, 5, 6, 7, 0>>), 8>>,
     <<Format(<<0, 1, 2, 3, 4, 5, 6, 7>>), 8>>,
     <<Format(<<0, 1, 2, 3, 4, 5, 6>>), 8>>,
     <<Format(<<0, 1, 2, 3, 9, 5, 6, 0>>), 8>>,
     <<<<"0", ",", ",", "1", ",", "2", ",", "3", ",", "4", ",", "5", ",",
         "6", ",", "x">>, 8>>,
     <<<<" ", "+", "1", ",", "0", "1", "x">>, 2>>,
     <<Format(Constant(32, 31)), 32>>,
     <<Format(Reversal(32)), 32>>}

ParseInputs ==
    {<<s, c>> : s \in Strings(MaxSpecLen), c \in 1..MaxCount} \cup SpecExamples

\* Words of n bits: every byte value for n = 8; the words with at most one
\* bit set and those with at most one bit clear otherwise.
Words(n) ==
    {{a} : a \in 0..(n - 1)} \cup {{}}
        \cup {(0..(n - 1)) \ {a} : a \in 0..(n - 1)} \cup {0..(n - 1)}
        \cup (IF n = ByteBits THEN {BitsOf(v) : v \in 0..255} ELSE {})

-----------------------------------------------------------------------------
(* Single calls of parseBits and swizzleWord.                              *)

NoCall == [stage |-> "none", bits |-> <<>>, count |-> 0, word |-> {},
           res |-> <<>>, out |-> {}, back |-> {}]

Idle ==
    /\ opts = [addrBits |-> NULL, dataBits |-> NULL, bytesPerWord |-> 1,
               bigEndian |-> FALSE]
    /\ inFileSize = {} /\ inFileData = <<>> /\ outFile = <<>>
    /\ pc = "idle" /\ err = "none" /\ warnings = {}
    /\ fileSize = {} /\ inSize = {}
    /\ numAddrBits = 0 /\ numDataBits = 0
    /\ addrBits = ZeroTable /\ dataBits = ZeroTable
    /\ inData = <<>> /\ outData = <<>> /\ pos = 0 /\ assembled = {}
    /\ data = {}
    /\ outAddr = 0
    /\ written = <<>> /\ oob = FALSE /\ run = 0 /\ firstImage = <<>>

RunVars == <<ulongBits, opts, inFileSize, inFileData, outFile, pc, err,
             warnings, fileSize, inSize, numAddrBits, numDataBits, addrBits,
             dataBits, inData, outData, pos, assembled, data, outAddr, written,
             oob, run, firstImage>>

\* parseBits(bits, dest, count, type) on a zeroed table.
CallParseBits ==
    /\ call.stage = "args"
    /\ call' = [call EXCEPT !.stage = "parsed",
                            !.res = ParseBits(call.bits, ZeroTable, call.count,
                                              ulongBits)]
    /\ UNCHANGED RunVars

\* swizzleWord(word, dest, count) with the table parseBits returned.
CallSwizzleWord ==
    /\ call.stage = "parsed"
    /\ call.res.err = "none"
    /\ call' = [call EXCEPT !.stage = "swizzled",
                            !.out = SwizzleWord(call.word, call.res.dest,
                                                call.count, ulongBits)]
    /\ UNCHANGED RunVars

\* The table as a permutation of the indexes below count.
Bijective(bits, count) ==
    \A v \in 0..(count - 1) : \E i \in 0..(count - 1) : bits[i + 1] = v

\* The spec of the inverse table: its token for destination bit d is the
\* position at which the table holds d.
InverseSpec(bits, count) ==
    Format([k \in 1..count |->
               CHOOSE i \in 0..(count - 1) : bits[i + 1] = count - k])

\* swizzleWord(out, inverse, count) with the table parseBits returns for the
\* spec of the inverse permutation.
CallSwizzleBack ==
    /\ call.stage = "swizzled"
    /\ Bijective(call.res.dest, call.count)
    /\ call' = [call EXCEPT
                   !.stage = "restored",
                   !.back = SwizzleWord(call.out,
                                        ParseBits(InverseSpec(call.res.dest, call.count),
                                                  ZeroTable, call.count, ulongBits).dest,
                                        call.count, ulongBits)]
    /\ UNCHANGED RunVars

InitParse ==
    /\ Idle
    /\ ulongBits \in {32, 64}
    /\ \E in \in ParseInputs :
           call = [NoCall EXCEPT !.stage = "args", !.bits = in[1], !.count = in[2]]

SpecParse == InitParse /\ [][CallParseBits]_vars

InitWord ==
    /\ Idle
    /\ ulongBits \in {32, 64}
    /\ \E w \in 1..4 :
           \E t \in TokenLists(ByteBits * w), v \in Words(ByteBits * w) :
               call = [NoCall EXCEPT !.stage = "args", !.bits = Format(t),
                                     !.count = ByteBits * w, !.word = v]

NextWord == CallParseBits \/ CallSwizzleWord \/ CallSwizzleBack

SpecWord == InitWord /\ [][NextWord]_vars

-----------------------------------------------------------------------------
(* swizzle(): one invocation of the tool.                                  *)

\* -- on a long.
Dec(S, L) ==
    IF S = {} THEN 0..(L - 1)
    ELSE LET k == CHOOSE x \in S : \A y \in S : x <= y
         IN  (S \ {k}) \cup (0..(k - 1))

\* The five shifts of lines 130-134, one after the other.
Smear(S) ==
    LET s1 == S \cup Shr(S, 1)
        s2 == s1 \cup Shr(s1, 2)
        s4 == s2 \cup Shr(s2, 4)
        s8 == s4 \cup Shr(s4, 8)
    IN  s8 \cup Shr(s8, 16)

\* The test of line 126.
NeedsPow2(o, S, L) == o.addrBits # NULL /\ (S \cap Dec(S, L)) # {}

\* inSize after lines 126-136.
RoundedSize(o, S, L) == IF NeedsPow2(o, S, L) THEN Inc(Smear(S), L) ELSE S

\* The test of line 137.
NeedsAlign(o, S, L) == Mod(S, o.bytesPerWord, L) # 0

\* inSize after lines 137-142: ~(bytesPerWord - 1) clears the bits of
\* bytesPerWord - 1.
AlignedSize(o, S, L) ==
    IF NeedsAlign(o, S, L)
    THEN AddSmall(S, o.bytesPerWord - 1, L) \ BitsOf(o.bytesPerWord - 1)
    ELSE S

\* (int)(-inf), the conversion of log2(0): out of the range of int, and
\* INT_MIN on the builds there are.
IntMin == (0 - 2147483647) - 1

\* (int)log2(inSize / bytesPerWord), line 144.  log2 is exact enough below
\* 2^33 for the conversion to give the index of the top bit; from 2^33 on
\* the result is at least 33 whatever the rounding, and rejected.
AddrWidth(o, S, L) ==
    LET q == Div(S, o.bytesPerWord, L)
    IN  IF q = {} THEN IntMin ELSE TopBit(q)

\* The test of line 147.
BadWidth(n) == n < 1 \/ n > 32

Abort(e) == /\ pc' = "exit"
            /\ err' = e

\* Lines 107-116: fopen of both files; "wb" truncates the file at out_path.
OpenFiles ==
    /\ pc = "open"
    /\ \/ /\ Abort("open-in")
          /\ UNCHANGED outFile
       \/ /\ Abort("open-out")
          /\ UNCHANGED outFile
       \/ /\ pc' = "size"
          /\ outFile' = <<>>
          /\ UNCHANGED err
    /\ UNCHANGED <<ulongBits, opts, inFileSize, inFileData, warnings, fileSize,
                   inSize, numAddrBits, numDataBits, addrBits, dataBits, inData,
                   outData, pos, assembled, data, outAddr, written, oob, run,
                   firstImage, call>>

\* Lines 118-124: fseek, ftell.
GetSize ==
    /\ pc = "size"
    /\ \/ /\ Abort("size")
          /\ UNCHANGED <<fileSize, inSize>>
       \/ /\ pc' = "pow2"
          /\ fileSize' = inFileSize
          /\ inSize' = inFileSize
          /\ UNCHANGED err
    /\ UNCHANGED <<ulongBits, opts, inFileSize, inFileData, outFile, warnings,
                   numAddrBits, numDataBits, addrBits, dataBits, inData, outData,
                   pos, assembled, data, outAddr, written, oob, run, firstImage, call>>

\* Lines 126-136: round up to a power of two when address bits are swizzled.
RoundPow2 ==
    /\ pc = "pow2"
    /\ pc' = "align"
    /\ inSize' = RoundedSize(opts, inSize, ulongBits)
    /\ warnings' = IF NeedsPow2(opts, inSize, ulongBits)
                   THEN warnings \cup {<<"non-power-of-two">>} ELSE warnings
    /\ UNCHANGED <<ulongBits, opts, inFileSize, inFileData, outFile, err,
                   fileSize, numAddrBits, numDataBits, addrBits, dataBits, inData,
                   outData, pos, assembled, data, outAddr, written, oob, run,
                   firstImage, call>>

\* Lines 137-142: round up to a multiple of the word size.
AlignWord ==
    /\ pc = "align"
    /\ pc' = "geom"
    /\ inSize' = AlignedSize(opts, inSize, ulongBits)
    /\ warnings' = IF NeedsAlign(opts, inSize, ulongBits)
                   THEN warnings \cup {<<"not-a-multiple">>} ELSE warnings
    /\ UNCHANGED <<ulongBits, opts, inFileSize, inFileData, outFile, err,
                   fileSize, numAddrBits, numDataBits, addrBits, dataBits, inData,
                   outData, pos, assembled, data, outAddr, written, oob, run,
                   firstImage, call>>

\* Lines 144-148: the bus widths, and the check of the address width.
Geometry ==
    /\ pc = "geom"
    /\ numAddrBits' = AddrWidth(opts, inSize, ulongBits)
    /\ numDataBits' = ByteBits * opts.bytesPerWord
    /\ IF BadWidth(numAddrBits')
       THEN Abort("width")
       ELSE pc' = "parseA" /\ UNCHANGED err
    /\ UNCHANGED <<ulongBits, opts, inFileSize, inFileData, outFile, warnings,
                   fileSize, inSize, addrBits, dataBits, inData, outData, pos,
                   assembled, data, outAddr, written, oob, run, firstImage, call>>

\* The warnings of one parseBits call.
DupWarnings(type, r) == {<<"duplicate", type, r.warn[k]>> : k \in 1..Len(r.warn)}

\* Lines 151, 154-155.
ParseAddr ==
    /\ pc = "parseA"
    /\ IF opts.addrBits = NULL
       THEN /\ pc' = "parseD"
            /\ UNCHANGED <<addrBits, warnings, err>>
       ELSE LET r == ParseBits(opts.addrBits, addrBits, numAddrBits, ulongBits)
            IN  /\ addrBits' = r.dest
                /\ warnings' = warnings \cup DupWarnings("address", r)
                /\ IF r.err = "none"
                   THEN pc' = "parseD" /\ UNCHANGED err
                   ELSE Abort(r.err)
    /\ UNCHANGED <<ulongBits, opts, inFileSize, inFileData, outFile, fileSize,
                   inSize, numAddrBits, numDataBits, dataBits, inData, outData,
                   pos, assembled, data, outAddr, written, oob, run, firstImage, call>>

\* Lines 152, 156-157.
ParseData ==
    /\ pc = "parseD"
    /\ IF opts.dataBits = NULL
       THEN /\ pc' = "alloc"
            /\ UNCHANGED <<dataBits, warnings, err>>
       ELSE LET r == ParseBits(opts.dataBits, dataBits, numDataBits, ulongBits)
            IN  /\ dataBits' = r.dest
                /\ warnings' = warnings \cup DupWarnings("data", r)
                /\ IF r.err = "none"
                   THEN pc' = "alloc" /\ UNCHANGED err
                   ELSE Abort(r.err)
    /\ UNCHANGED <<ulongBits, opts, inFileSize, inFileData, outFile, fileSize,
                   inSize, numAddrBits, numDataBits, addrBits, inData, outData,
                   pos, assembled, data, outAddr, written, oob, run, firstImage, call>>

\* Lines 160-167: two zeroed buffers of inSize bytes; the file is read into
\* the first fileSize bytes of inData.
AllocRead ==
    /\ pc = "alloc"
    /\ \/ /\ Abort("alloc")
          /\ UNCHANGED <<inData, outData, written>>
       \/ /\ Abort("read")
          /\ UNCHANGED <<inData, outData, written>>
       \/ /\ pc' = "loop"
          /\ inData' = [i \in 1..ValueOf(inSize) |->
                           IF i <= ValueOf(fileSize) THEN inFileData[i] ELSE 0]
          /\ outData' = [i \in 1..ValueOf(inSize) |-> 0]
          /\ written' = [i \in 1..ValueOf(inSize) |-> 0]
          /\ UNCHANGED err
    /\ UNCHANGED <<ulongBits, opts, inFileSize, inFileData, outFile, warnings,
                   fileSize, inSize, numAddrBits, numDataBits, addrBits, dataBits,
                   pos, assembled, data, outAddr, oob, run, firstImage, call>>

\* Line 173 (and 171 when no address bits are swizzled).
OutAddr(o, p, bits, count, L) ==
    IF o.addrBits # NULL
    THEN o.bytesPerWord
             * ValueOf(SwizzleWord(BitsOf(p \div o.bytesPerWord), bits, count, L))
    ELSE p

\* The shift of byte i of a word, lines 178/181 and 188/191.
ByteShift(o, i) ==
    IF o.bigEndian THEN ByteBits * (o.bytesPerWord - i - 1) ELSE ByteBits * i

\* Lines 175-181: data |= (inData[pos + i] << shift), an int shift whose
\* result is converted to unsigned long.
Assemble(o, bytes, L) ==
    UNION {IntShl(bytes[i + 1], ByteShift(o, i), L) : i \in 0..(o.bytesPerWord - 1)}

\* Lines 188/191: the byte stored for position i, data >> shift cut to
\* unsigned char.
StoredByte(o, d, i) ==
    ValueOf({b \in Shr(d, ByteShift(o, i)) : b < ByteBits})

\* What a read beyond the end of inData may return.
StrayBytes == {0, 170}

\* Lines 169-192: one iteration of the transform loop.  A read beyond the
\* buffer returns any byte; a store beyond the buffer leaves the buffer as
\* it is; either sets oob.
LoopStep ==
    /\ pc = "loop"
    /\ pos < ValueOf(inSize)
    /\ LET w == opts.bytesPerWord
           size == ValueOf(inSize)
           strayRead == pos + w > size
       IN  \E stray \in (IF strayRead THEN StrayBytes ELSE {0}) :
             LET bytes == [k \in 1..w |->
                              IF pos + k <= size THEN inData[pos + k] ELSE stray]
                 a == OutAddr(opts, pos, addrBits, numAddrBits, ulongBits)
                 v == Assemble(opts, bytes, ulongBits)
                 d == IF opts.dataBits # NULL
                      THEN SwizzleWord(v, dataBits, numDataBits, ulongBits)
                      ELSE v
                 hit == {a + i + 1 : i \in 0..(w - 1)} \cap (1..size)
             IN  /\ outAddr' = a
                 /\ assembled' = v
                 /\ data' = d
                 /\ outData' = [j \in 1..size |->
                                   IF j \in hit THEN StoredByte(opts, d, j - a - 1)
                                   ELSE outData[j]]
                 /\ written' = [j \in 1..size |->
                                   IF j \in hit THEN written[j] + 1 ELSE written[j]]
                 /\ oob' = (oob \/ strayRead \/ a + w > size)
                 /\ pos' = pos + w
    /\ UNCHANGED <<ulongBits, opts, inFileSize, inFileData, outFile, pc, err,
                   warnings, fileSize, inSize, numAddrBits, numDataBits, addrBits,
                   dataBits, inData, run, firstImage, call>>

\* Lines 194-200: fwrite of the output buffer; a short write leaves some
\* prefix of it in the file.
WriteOut ==
    /\ pc = "loop"
    /\ pos >= ValueOf(inSize)
    /\ \/ /\ Abort("write")
          /\ \E k \in 0..(ValueOf(inSize) - 1) : outFile' = SubSeq(outData, 1, k)
       \/ /\ pc' = "done"
          /\ outFile' = outData
          /\ UNCHANGED err
    /\ UNCHANGED <<ulongBits, opts, inFileSize, inFileData, warnings, fileSize,
                   inSize, numAddrBits, numDataBits, addrBits, dataBits, inData,
                   outData, pos, assembled, data, outAddr, written, oob, run,
                   firstImage, call>>

-----------------------------------------------------------------------------
(* main(): the command line, and a second invocation on the output of the  *)
(* first with the inverse tables.                                          *)

\* What was at out_path before the run.
OldOutput == <<238, 238>>

\* An image of n bytes: a ramp from a first byte by a step.
Ramp(n, first, step) == [i \in 1..n |-> (first + step * (i - 1)) % 256]
Images(n) == {Ramp(n, 18, 34), Ramp(n, 125, 17)}

\* Address specs for the address widths of the images: every order of the
\* indexes below 1, 2 and 3, a spec that repeats an index, one with an
\* out-of-range index.
Orders(n) == {t \in [1..n -> 0..(n - 1)] : \A i, j \in 1..n : t[i] = t[j] => i = j}
AddrSpecs ==
    {Format(t) : t \in Orders(1) \cup Orders(2) \cup Orders(3)}
        \cup {Format(<<0, 0>>), Format(<<3, 0>>)}

\* Data specs for a word of w bytes: the reversal, a rotation, a spec that
\* repeats an index, a spec of one token.
DataSpecs(w) ==
    {Format(Reversal(ByteBits * w)), Format(Rotation(ByteBits * w, 3)),
     Format(Doubled(ByteBits * w)), Format(<<0>>)}

\* Lines 218-222, 234-253: the options main passes to swizzle.
Options ==
    {[addrBits |-> a, dataBits |-> d, bytesPerWord |-> w, bigEndian |-> b] :
        a \in {NULL} \cup AddrSpecs, d \in {NULL}, w \in 1..4, b \in BOOLEAN}
      \cup
    UNION {{[addrBits |-> a, dataBits |-> d, bytesPerWord |-> w, bigEndian |-> b] :
               a \in {NULL, Format(<<0, 1>>)}, d \in DataSpecs(w), b \in BOOLEAN} :
           w \in 1..4}

\* The state in which swizzle() is entered.
Entered(o, size, bytes, n) ==
    /\ opts = o
    /\ inFileSize = size /\ inFileData = bytes /\ outFile = OldOutput
    /\ pc = "open" /\ err = "none" /\ warnings = {}
    /\ fileSize = {} /\ inSize = {}
    /\ numAddrBits = 0 /\ numDataBits = 0
    /\ addrBits = ZeroTable /\ dataBits = ZeroTable
    /\ inData = <<>> /\ outData = <<>> /\ pos = 0 /\ assembled = {}
    /\ data = {}
    /\ outAddr = 0 /\ written = <<>> /\ oob = FALSE
    /\ run = n /\ call = NoCall

Init ==
    /\ ulongBits \in {32, 64}
    /\ \E o \in Options, n \in 1..MaxFileSize :
           \E img \in Images(n) :
               /\ Entered(o, BitsOf(n), img, 1)
               /\ firstImage = img

\* The tool is run again, on the output of a run that swizzled one axis
\* with a permutation, with the spec of the inverse permutation.
Reinvoke ==
    /\ pc = "done"
    /\ run = 1
    /\ (opts.addrBits = NULL) # (opts.dataBits = NULL)
    /\ opts.addrBits # NULL => Bijective(addrBits, numAddrBits)
    /\ opts.dataBits # NULL => Bijective(dataBits, numDataBits)
    /\ opts' = [opts EXCEPT
                   !.addrBits = IF @ = NULL THEN NULL
                                ELSE InverseSpec(addrBits, numAddrBits),
                   !.dataBits = IF @ = NULL THEN NULL
                                ELSE InverseSpec(dataBits, numDataBits)]
    /\ inFileSize' = BitsOf(Len(outFile))
    /\ inFileData' = outFile
    /\ outFile' = OldOutput
    /\ pc' = "open" /\ err' = "none" /\ warnings' = {}
    /\ fileSize' = {} /\ inSize' = {}
    /\ numAddrBits' = 0 /\ numDataBits' = 0
    /\ addrBits' = ZeroTable /\ dataBits' = ZeroTable
    /\ inData' = <<>> /\ outData' = <<>> /\ pos' = 0 /\ assembled' = {}
    /\ data' = {} /\ outAddr' = 0 /\ written' = <<>> /\ oob' = FALSE
    /\ run' = 2
    /\ UNCHANGED <<ulongBits, firstImage, call>>

Next ==
    \/ OpenFiles \/ GetSize \/ RoundPow2 \/ AlignWord \/ Geometry
    \/ ParseAddr \/ ParseData \/ AllocRead \/ LoopStep \/ WriteOut
    \/ Reinvoke

Spec == Init /\ [][Next]_vars

\* File sizes as such: the sizes up to 128 and the sizes with two bits set,
\* below the width of long.
Sizes(L) ==
    {BitsOf(n) : n \in 1..128}
        \cup {{a, b} : a, b \in 0..(IF L = 32 THEN 30 ELSE MaxSizeBit)}

\* The run up to the check of the geometry, for files of any size: nothing
\* up to there reads the content of the file, which is left out.
InitSize ==
    /\ ulongBits \in {32, 64}
    /\ \E w \in 1..4, a \in {NULL, Format(<<0>>)} :
           \E size \in Sizes(ulongBits) :
               /\ Entered([addrBits |-> a, dataBits |-> NULL,
                           bytesPerWord |-> w, bigEndian |-> FALSE],
                          size, <<>>, 1)
               /\ firstImage = <<>>

NextSize == OpenFiles \/ GetSize \/ RoundPow2 \/ AlignWord \/ Geometry

SpecSize == InitSize /\ [][NextSize]_vars

-----------------------------------------------------------------------------
(* Claims about parseBits and swizzleWord.                                 *)

\* What the claims say about a bit spec: the indexes of its tokens, the
\* place of the first index outside [0, count) (one past the last token when
\* there is none), and whether an index repeats before place m.
Indexes(bits) == LET toks == Strtok(bits) IN [k \in 1..Len(toks) |-> Atoi(toks[k])]
IndexInRange(i, count) == 0 <= i /\ i < count
FirstBad(idx, count) ==
    IF \A k \in 1..Len(idx) : IndexInRange(idx[k], count)
    THEN Len(idx) + 1
    ELSE CHOOSE k \in 1..Len(idx) :
             /\ ~IndexInRange(idx[k], count)
             /\ \A j \in 1..(k - 1) : IndexInRange(idx[j], count)
RepeatsBefore(idx, m) ==
    \E i, j \in 1..(m - 1) : i < j /\ idx[i] = idx[j]

C4_TokenCountMismatch ==
    call.stage = "parsed" =>
        LET idx == Indexes(call.bits)
            bad == FirstBad(idx, call.count)
        IN  /\ (bad > Len(idx) /\ Len(idx) # call.count =>
                   /\ call.res.err = "count"
                   /\ call.res.info = <<call.count, Len(idx)>>)
            /\ (bad <= Len(idx) => call.res.err = "index")
            /\ (call.count = 8 /\ idx = <<8, 0, 1, 2, 3, 4, 5, 6, 7>> =>
                   /\ call.res.err = "index"
                   /\ call.res.info = <<8, 7>>)

C4_Witness ==
    /\ call.stage = "parsed"
    /\ Len(call.bits) = 17
    /\ call.res.err = "count"
    /\ call.res.info = <<8, 9>>

\* C4 as claimed: every bit spec whose number of tokens is not N fails with
\* the token-count error reporting N and the number of tokens supplied.
C4_Original ==
    call.stage = "parsed" =>
        LET idx == Indexes(call.bits)
        IN  Len(idx) # call.count =>
                /\ call.res.err = "count"
                /\ call.res.info = <<call.count, Len(idx)>>

\* C5, as amended: parseBits returns a table if and only if the spec has
\* exactly N tokens and every token is an index in [0, N); a token below 0
\* or at least N aborts with the out-of-range error, which reports the
\* index and N - 1; a repeated index never causes failure; and the
\* duplicate-index warning is emitted if and only if some index occurs more
\* than once among the tokens before the first out-of-range one (among all
\* tokens when none is out of range).
C5_ParserAcceptance ==
    call.stage = "parsed" =>
        LET idx == Indexes(call.bits)
            bad == FirstBad(idx, call.count)
        IN  /\ call.res.err = "none" <=> (Len(idx) = call.count /\ bad > Len(idx))
            /\ (bad <= Len(idx) =>
                   /\ call.res.err = "index"
                   /\ call.res.info = <<idx[bad], call.count - 1>>)
            /\ call.res.warn # <<>> <=> RepeatsBefore(idx, bad)

C5_Witness ==
    /\ call.stage = "parsed"
    /\ call.res.err = "none"
    /\ call.res.warn # <<>>
    /\ call.count = 2

\* C5 as claimed: the duplicate-index warning is emitted if and only if
\* some index value occurs more than once in the spec.
C5_Original ==
    call.stage = "parsed" =>
        LET idx == Indexes(call.bits)
        IN  call.res.warn # <<>> <=> RepeatsBefore(idx, Len(idx) + 1)

-----------------------------------------------------------------------------
(* Claims about a run of the tool.                                         *)

IoErrors == {"open-in", "open-out", "size", "alloc", "read", "write"}
Zeros(k) == [i \in 1..k |-> 0]

\* The smallest multiple of w that is at least n.
RoundUp(n, w) == ((n + w - 1) \div w) * w

\* The smallest power of two that is at least the size S > 0.
NextPow2(S) == IF Cardinality(S) = 1 THEN S ELSE {TopBit(S) + 1}

\* C1: with neither an address spec nor a data spec, for every bytesPerWord
\* and byte order, the run completes and the output is the input followed
\* only by the zero bytes of the word-size padding.  Stated for the images
\* of at least two words, and for runs in which no file operation or
\* allocation fails.
C1_Identity ==
    LET n == Len(firstImage)
        padded == RoundUp(n, opts.bytesPerWord)
    IN  (/\ run = 1
         /\ opts.addrBits = NULL /\ opts.dataBits = NULL
         /\ padded \div opts.bytesPerWord >= 2) =>
            /\ ~oob
            /\ (pc = "exit" => err \in IoErrors)
            /\ (pc = "done" => outFile = firstImage \o Zeros(padded - n))

\* C2: an image whose size needs no padding, swizzled with a bijective table
\* on one axis and then, with the same bytesPerWord and byte order, with the
\* inverse table on that axis, is the original image again.
C2_RoundTrip ==
    (/\ run = 2
     /\ pc = "done"
     /\ Len(firstImage) % opts.bytesPerWord = 0
     /\ opts.addrBits # NULL => Cardinality(BitsOf(Len(firstImage))) = 1) =>
        outFile = firstImage

\* C6: with an address spec the working size before word alignment is the
\* smallest power of two that is at least the file size n >= 1, and the
\* non-power-of-two warning is emitted if and only if n is not a power of
\* two; without an address spec the working size before alignment is n.
C6_PowerOfTwoPadding ==
    pc = "align" =>
        IF opts.addrBits # NULL
        THEN /\ inSize = NextPow2(fileSize)
             /\ <<"non-power-of-two">> \in warnings <=> Cardinality(fileSize) # 1
        ELSE /\ inSize = fileSize
             /\ <<"non-power-of-two">> \notin warnings

\* The word the bytes stand for: sum of b_i * 256^(w-1-i) in big-endian
\* mode, of b_i * 256^i in little-endian mode.
WordOf(bytes, bigEndian) ==
    UNION {{b + ByteBits * (IF bigEndian THEN Len(bytes) - i - 1 ELSE i) :
               b \in BitsOf(bytes[i + 1])} : i \in 0..(Len(bytes) - 1)}

\* C7: the word the loop assembles from the bytes b_0..b_(w-1) of a word
\* position is sum(b_i * 256^(w-1-i)) in big-endian mode and
\* sum(b_i * 256^i) in little-endian mode, a value in [0, 2^(8w)).
C7_WordAssembly ==
    (/\ pc \in {"loop", "done"}
     /\ pos > 0
     /\ pos <= ValueOf(inSize)) =>
        /\ assembled = WordOf(SubSeq(inData, pos - opts.bytesPerWord + 1, pos),
                              opts.bigEndian)
        /\ assembled \subseteq 0..(ByteBits * opts.bytesPerWord - 1)

\* C8: the working size after the alignment step is the smallest multiple
\* of bytesPerWord that is at least the size s the power-of-two step
\* produced, the unaligned-size warning is emitted if and only if s is not
\* such a multiple, and every word position pos the loop visits satisfies
\* pos + bytesPerWord <= workingSize.
C8_WordAlignment ==
    pc \in {"geom", "parseA", "parseD", "alloc", "loop", "done"} =>
        LET s == ValueOf(RoundedSize(opts, fileSize, ulongBits))
            w == opts.bytesPerWord
        IN  /\ ValueOf(inSize) = RoundUp(s, w)
            /\ <<"not-a-multiple">> \in warnings <=> s % w # 0
            /\ (pc = "loop" /\ pos < ValueOf(inSize) =>
                   pos + w <= ValueOf(inSize))

\* The word index whose bit i is bit table[i] of p.
Permuted(p, bits, count) ==
    ValueOf({i \in 0..(count - 1) : bits[i + 1] \in BitsOf(p)})

\* The bytes of word slot k of a buffer.
Slot(buf, k, w) == SubSeq(buf, k * w + 1, k * w + w)

\* C9: when an address spec without a repeated index was accepted and the
\* word count workingSize / bytesPerWord is 2^numAddrBits, every destination
\* offset of the loop is inside the output buffer, every output word slot is
\* written exactly once, and, with no data spec, the output word at the
\* index whose bit i is bit table[i] of p is the input word at index p.
C9_AddressBijection ==
    (/\ pc = "done"
     /\ opts.addrBits # NULL
     /\ \A i \in 0..(TableLen - 1) : <<"duplicate", "address", i>> \notin warnings
     /\ ValueOf(inSize) \div opts.bytesPerWord = Pow2(numAddrBits)) =>
        /\ ~oob
        /\ \A j \in 1..ValueOf(inSize) : written[j] = 1
        /\ (opts.dataBits = NULL =>
               \A p \in 0..(Pow2(numAddrBits) - 1) :
                   Slot(outData, Permuted(p, addrBits, numAddrBits),
                        opts.bytesPerWord)
                       = Slot(inData, p, opts.bytesPerWord))

\* C10: a run that aborts with the invalid-address-width, out-of-range-index,
\* token-count or input-size error leaves the content at out_path as it was
\* before the run.
C10_OutputUntouched ==
    (pc = "exit" /\ err \in {"width", "index", "count", "size"}) =>
        outFile = OldOutput

-----------------------------------------------------------------------------
(* Where C1, C2, C6, C7, C8 and C9 do hold.                                *)

\* Word level of C2: swizzleWord with a bijective table and then with its
\* inverse gives back every word below 2^N.
WordRoundTrip == call.stage = "restored" => call.back = call.word

\* C1, C8 and C9 hold of the runs whose words are not three bytes wide.
IdentityUnlessThreeByteWords == opts.bytesPerWord # 3 => C1_Identity
AlignmentUnlessThreeByteWords == opts.bytesPerWord # 3 => C8_WordAlignment
BijectionUnlessThreeByteWords == opts.bytesPerWord # 3 => C9_AddressBijection

\* C2 and C7 hold of the runs whose words are narrower than unsigned long
\* or in which no data bits are swizzled (C2).
RoundTripUnlessWideWords ==
    ~(opts.bytesPerWord = 4 /\ ulongBits = 64 /\ opts.dataBits # NULL)
        => C2_RoundTrip
AssemblyUnlessWideWords ==
    ~(opts.bytesPerWord = 4 /\ ulongBits = 64) => C7_WordAssembly

\* C6 holds of the files of at most 2^32 bytes, and the bytes of the input
\* buffer beyond the file are zero when the loop starts.
PowerOfTwoUpTo32Bits == fileSize \subseteq 0..IntBits => C6_PowerOfTwoPadding
PaddingIsZero ==
    pc = "loop" =>
        \A i \in 1..ValueOf(inSize) : i > ValueOf(fileSize) => inData[i] = 0

=============================================================================
